---- MODULE Spec2Model ----
(***************************************************************************)
(* A model of AssettoServerProcess (src/server_process.go): the control    *)
(* loop goroutine, the callers of Start / Stop / Restart, the goroutine    *)
(* that waits for the main acServer process, the two timers of every Stop  *)
(* call, the UDP relay handle and the done-waiter channels.                *)
(*                                                                         *)
(* The channels start, started, stopped and run are unbuffered: a send and *)
(* its receive are one joint step of the two goroutines.  Every section of *)
(* code that runs under sp.mutex is one atomic step.                       *)
(***************************************************************************)
EXTENDS Integers, Sequences, FiniteSets, TLC

\* ------------------------------------------------------------------ bounds

\* How many calls of Start and Restart the callers make: in the specifications
\* where they also call Stop and register done channels (MaxStart), and in
\* the one where they only start and restart (MaxRestart).
MaxStart == 2
MaxRestart == 3

\* The log buffer: its cap (newLogBuffer's maxSize), the longest Write and the
\* number of bytes the writers write in all.
LogSize == 2
MaxWrite == 3
MaxWritten == 6

\* ------------------------------------------------------------- the domains

Loop == "loop"
Callers == {"c1", "c2"}
Agents == Callers \cup {Loop}

Nil == "nil"
Events == {"A", "B"}
DoneChans == {"d1"}
Sessions == 1 .. MaxRestart

\* Addresses are strings; the model keeps them as sequences of characters so
\* that net.SplitHostPort and strconv.ParseInt are computed, not assumed.
GoodAddress == <<"h", ":", "9">>
OtherAddress == <<"h", ":", "8">>
NotAnAddress == <<"h">>
EmptyAddress == << >>
Digits == {"8", "9"}

ZeroAddressing ==
    [udpPluginAddress |-> EmptyAddress, udpPluginLocalPort |-> 0,
     forwardingAddress |-> EmptyAddress, forwardListenPort |-> 0]
Addressing1 ==
    [udpPluginAddress |-> GoodAddress, udpPluginLocalPort |-> 1,
     forwardingAddress |-> EmptyAddress, forwardListenPort |-> 0]
Addressing2 ==
    [udpPluginAddress |-> OtherAddress, udpPluginLocalPort |-> 2,
     forwardingAddress |-> GoodAddress, forwardListenPort |-> 3]
AddressingBad ==
    [udpPluginAddress |-> NotAnAddress, udpPluginLocalPort |-> 1,
     forwardingAddress |-> EmptyAddress, forwardListenPort |-> 0]
\* The addressings a caller passes to Start.
Addressings == {Addressing1, Addressing2, AddressingBad}

\* config.Server.Plugins and config.Server.RunOnStart of the running program.
ConfigPlugins == <<"plugin">>
ConfigRunOnStart == <<"command">>

\* The bytes written to the log buffer, and the arguments of Write.
Bytes == {"x", "y"}
Writes == UNION {[1 .. n -> Bytes] : n \in 0 .. MaxWrite}

ErrServerProcessTimeout == "ErrServerProcessTimeout"
ErrNoOpenUDPConnection == "ErrNoOpenUDPConnection"

\* ------------------------------------------------------------------- state

VARIABLES
    \* fields of AssettoServerProcess
    raceEvent,           \* sp.raceEvent: a descriptor or Nil
    udpPluginAddress, udpPluginLocalPort, forwardingAddress, forwardListenPort,
    cmd,                 \* sp.cmd: 0 (nil) or the launch that built it
    cfn,                 \* sp.cfn: 0 (nil) or the launch whose context it cancels
    udpServerConn,       \* sp.udpServerConn: "nil", "open" or "closed"
    extraProcesses,      \* sp.extraProcesses: the tracked children
    notifyDoneChs,       \* sp.notifyDoneChs
    \* the main processes, one per launch
    proc,                \* "none", "running", "exited", "reaped"
    cancelled,           \* running processes whose context is cancelled
    killed,              \* running processes that got a forced kill
    nLaunch,             \* startRaceEvent calls so far
    nStart,              \* Start and Restart calls so far
    relayAddressing,     \* the addressing the relay was opened with
    \* the goroutines
    pc,                  \* where each agent (the loop, each caller) is
    op,                  \* the public method a caller is in
    ev,                  \* a caller's Start argument / Restart's captured event
    ad,                  \* Restart's captured addressing
    running,             \* Restart's local 'running'
    loopEvent,           \* the loop's local raceEvent
    loopErr,             \* the value the loop is about to send on started/stopped
    timeout,             \* the 10s timer of an agent's Stop call
    waiting,             \* done channels with a receiver parked on them
    crashed,             \* "no", or the unrecovered panic that ended the program
    \* observations (history of what the code did)
    lastStart,           \* what the most recent Start returned
    tdSince,             \* onStop ran since the most recent Start returned
    stopInfo,            \* per agent: what happened during its Stop call so far
    lastExit,            \* the latest exit of a main process not yet torn down
    lastTeardown,        \* the onStop in progress: its launch and whom it signaled
    signals,             \* per done channel: the signals its owner has received
    atRestart,           \* per caller in Restart: the session when it was called
    \* the log buffer
    buf,                 \* lb.buf: the bytes held
    written,             \* every byte ever passed to Write, in order
    lastWrite            \* the argument of the most recent Write

spFields ==
    <<raceEvent, udpPluginAddress, udpPluginLocalPort, forwardingAddress,
      forwardListenPort, cmd, cfn, udpServerConn, extraProcesses,
      notifyDoneChs>>
osVars == <<proc, cancelled, killed, nLaunch, nStart, relayAddressing>>
goVars == <<pc, op, ev, ad, running, loopEvent, loopErr, timeout, waiting, crashed>>
obsVars == <<lastStart, tdSince, stopInfo, lastExit, lastTeardown, signals,
            atRestart>>
logVars == <<buf, written, lastWrite>>
vars == <<spFields, osVars, goVars, obsVars, logVars>>

addressing ==
    [udpPluginAddress |-> udpPluginAddress, udpPluginLocalPort |-> udpPluginLocalPort,
     forwardingAddress |-> forwardingAddress, forwardListenPort |-> forwardListenPort]

\* launch: the launch whose context the call cancelled; idle: no session was
\* active when it was called; exited: that launch's process exited during the
\* call without a forced kill; teardown: its onStop completed during the call;
\* missed: the result of that onStop
\* was offered on sp.stopped and dropped during the call; lateTimeout: the 10s
\* timer fired after that; kills: forced kills so far.
NoStopInfo ==
    [launch |-> 0, idle |-> FALSE, exited |-> FALSE, teardown |-> FALSE,
     missed |-> FALSE, lateTimeout |-> FALSE, kills |-> 0, result |-> "none"]
NoExit == [launch |-> 0, own |-> FALSE, registered |-> {}]
\* running, event: IsRunning() and the descriptor when Restart was called;
\* addressing: what the relay of that session was opened with; stop: what the
\* Stop made by Restart returned.
NoRestart ==
    [running |-> FALSE, event |-> Nil, addressing |-> ZeroAddressing, stop |-> "none"]
NoTeardown == [launch |-> 0, done |-> FALSE, ready |-> {}, signaled |-> {}]

Init ==
    /\ raceEvent = Nil
    /\ udpPluginAddress = ZeroAddressing.udpPluginAddress
    /\ udpPluginLocalPort = ZeroAddressing.udpPluginLocalPort
    /\ forwardingAddress = ZeroAddressing.forwardingAddress
    /\ forwardListenPort = ZeroAddressing.forwardListenPort
    /\ cmd = 0
    /\ cfn = 0
    /\ udpServerConn = "nil"
    /\ extraProcesses = << >>
    /\ notifyDoneChs = << >>
    /\ proc = [i \in Sessions |-> "none"]
    /\ cancelled = {}
    /\ killed = {}
    /\ nLaunch = 0
    /\ nStart = 0
    /\ relayAddressing = ZeroAddressing
    /\ pc = [a \in Agents |-> IF a = Loop THEN "select" ELSE "idle"]
    /\ op = [c \in Callers |-> "none"]
    /\ ev = [c \in Callers |-> Nil]
    /\ ad = [c \in Callers |-> ZeroAddressing]
    /\ running = [c \in Callers |-> FALSE]
    /\ loopEvent = Nil
    /\ loopErr = Nil
    /\ timeout = [a \in Agents |-> "off"]
    /\ waiting = {}
    /\ crashed = "no"
    /\ lastStart = "none"
    /\ tdSince = FALSE
    /\ stopInfo = [a \in Agents |-> NoStopInfo]
    /\ lastExit = NoExit
    /\ lastTeardown = NoTeardown
    /\ signals = [ch \in DoneChans |-> 0]
    /\ atRestart = [c \in Callers |-> NoRestart]
    /\ buf = << >>
    /\ written = << >>
    /\ lastWrite = << >>

\* -------------------------------------------------------- pure functions

Range(s) == {s[i] : i \in 1 .. Len(s)}

\* strings.Contains(a, ":")
HasColon(a) == \E i \in 1 .. Len(a) : a[i] = ":"

LastColon(a) ==
    IF HasColon(a)
    THEN CHOOSE i \in 1 .. Len(a) :
             a[i] = ":" /\ \A j \in 1 .. Len(a) : a[j] = ":" => j <= i
    ELSE 0

\* net.SplitHostPort: the text before and after the last colon; an error when
\* there is no colon ("missing port in address") or the host holds another one
\* ("too many colons in address").
SplitHostPort(a) ==
    LET i == LastColon(a)
        host == SubSeq(a, 1, i - 1)
    IN  IF i = 0 \/ HasColon(host)
        THEN [host |-> << >>, port |-> << >>, err |-> "ErrSplitHostPort"]
        ELSE [host |-> host, port |-> SubSeq(a, i + 1, Len(a)), err |-> Nil]

\* strconv.ParseInt(portStr, 10, 0): an error on an empty text or a non-digit.
ParseInt(s) ==
    IF s # << >> /\ \A i \in 1 .. Len(s) : s[i] \in Digits
    THEN Nil
    ELSE "ErrParseInt"

\* udp.NewServerClient: the bound relay, or no relay and an error.
NewServerClient(bindOK) ==
    IF bindOK THEN [conn |-> "open", err |-> Nil]
              ELSE [conn |-> "nil", err |-> "ErrListen"]

\* startUDPListener: the new value of sp.udpServerConn and the error returned.
\* The two parse failures return before sp.udpServerConn is assigned.
startUDPListener(bindOK) ==
    LET hp == SplitHostPort(udpPluginAddress)
    IN  IF hp.err # Nil THEN [conn |-> udpServerConn, err |-> hp.err]
        ELSE IF ParseInt(hp.port) # Nil
             THEN [conn |-> udpServerConn, err |-> ParseInt(hp.port)]
             ELSE NewServerClient(bindOK)

\* What the store and the operating system answer during one launch, from
\* store.LoadServerOptions on (lines 216-279).
ServerOptionsAddresses == {GoodAddress, NotAnAddress, EmptyAddress}
LaunchInputs ==
    [loadOK : BOOLEAN,                 \* store.LoadServerOptions succeeds
     strackerOn : BOOLEAN,             \* options load, EnableStracker, installed
     optAddress : ServerOptionsAddresses,  \* serverOptions.UDPPluginAddress
     optPortOK : BOOLEAN,              \* serverOptions.UDPPluginLocalPort >= 0
     writeOK : BOOLEAN,                \* strackerOptions.Write succeeds
     strackerOK : BOOLEAN,             \* startPlugin(sTracker) succeeds
     pluginOK : [Range(ConfigPlugins) -> BOOLEAN],
     commandOK : [Range(ConfigRunOnStart) -> BOOLEAN]]

NoAux == [err |-> Nil, children |-> << >>, panic |-> FALSE]

\* Lines 232-259: the sTracker block.
stracker(in) ==
    IF ~in.strackerOn THEN NoAux
    ELSE IF (in.optPortOK /\ in.optAddress # EmptyAddress) \/ HasColon(in.optAddress)
         THEN IF ~HasColon(in.optAddress)
              THEN [NoAux EXCEPT !.panic = TRUE]  \* strings.Split(..)[1]
              ELSE IF ~in.writeOK THEN [NoAux EXCEPT !.err = "ErrStrackerWrite"]
              ELSE IF ~in.strackerOK THEN [NoAux EXCEPT !.err = "ErrStartPlugin"]
              ELSE [NoAux EXCEPT !.children = <<"stracker">>]
         ELSE NoAux  \* logged: ErrStrackerConfigurationRequiresUDPPluginConfiguration

\* Lines 216-281: what startRaceEvent does and returns once the main process
\* has been handed to the waiting goroutine. The goroutine of lines 223-229
\* (the Content Manager wrapper) only logs: it changes nothing of the
\* supervisor and nothing Start returns.
afterHandOff(in) ==
    IF ~in.loadOK THEN [NoAux EXCEPT !.err = "ErrLoadServerOptions"]
    ELSE LET st == stracker(in)
             plugins == SelectSeq(ConfigPlugins, LAMBDA p : in.pluginOK[p])
             commands == SelectSeq(ConfigRunOnStart, LAMBDA c : in.commandOK[c])
         IN  IF st.panic \/ st.err # Nil
             THEN st
             ELSE [st EXCEPT !.children = st.children \o plugins \o commands]

AuxOutcomes == {afterHandOff(in) : in \in LaunchInputs}

\* IsRunning() and Event(), read under the mutex.
IsRunning == raceEvent # Nil
Event == raceEvent

\* SendUDPMessage, lines 320-329: the error, or a send on the stored handle.
SendUDPMessage ==
    IF udpServerConn = "nil" THEN ErrNoOpenUDPConnection ELSE "SendMessage"

\* The agent is inside Stop and has not yet taken its result.
InStop(a) == pc[a] \in {"stop_enter", "stop_select", "stop_kill"}

\* No descriptor is set and no main process is alive or waits for its teardown.
NoSession ==
    /\ raceEvent = Nil
    /\ \A i \in Sessions : proc[i] \in {"none", "reaped"}
    /\ pc[Loop] # "onStop"

\* ------------------------------------------------------------ the callers

\* Start, lines 89-94: the addressing is stored under the lock; the caller
\* then offers the event on sp.start.
StoreAddressing(a) ==
    /\ udpPluginAddress' = a.udpPluginAddress
    /\ udpPluginLocalPort' = a.udpPluginLocalPort
    /\ forwardingAddress' = a.forwardingAddress
    /\ forwardListenPort' = a.forwardListenPort

\* Start with a start channel that takes the descriptor without the loop
\* (a buffered channel): the caller goes on to wait for its result.
StartWithoutHandOff(c, e, a) ==
    /\ crashed = "no"
    /\ pc[c] = "idle"
    /\ nStart' = nStart + 1
    /\ StoreAddressing(a)
    /\ pc' = [pc EXCEPT ![c] = "start_recv"]
    /\ op' = [op EXCEPT ![c] = "Start"]
    /\ ev' = [ev EXCEPT ![c] = e]
    /\ UNCHANGED <<logVars, raceEvent, cmd, cfn, udpServerConn, extraProcesses,
                   notifyDoneChs, proc, cancelled, killed, nLaunch, relayAddressing,
                   ad, running, loopEvent, loopErr, timeout, waiting, crashed,
                   obsVars>>

Start(c, e, a) ==
    /\ crashed = "no"
    /\ pc[c] = "idle"
    /\ nStart' = nStart + 1
    /\ StoreAddressing(a)
    /\ pc' = [pc EXCEPT ![c] = "start_send"]
    /\ op' = [op EXCEPT ![c] = "Start"]
    /\ ev' = [ev EXCEPT ![c] = e]
    /\ UNCHANGED <<logVars, raceEvent, cmd, cfn, udpServerConn, extraProcesses, notifyDoneChs,
                   proc, cancelled, killed, nLaunch, relayAddressing, ad, running, loopEvent,
                   loopErr, timeout, waiting, crashed, obsVars>>

\* Stop, lines 111-113: the two timers are created and sp.cfn is called. A nil
\* sp.cfn (no launch yet) is a nil function call: a panic.
StopBegin(a) ==
    IF cfn = 0
    THEN /\ crashed' = "nil cfn"
         /\ UNCHANGED <<cancelled, timeout, stopInfo, pc>>
    ELSE /\ cancelled' = cancelled \cup {i \in {cfn} : proc[i] = "running"}
         /\ timeout' = [timeout EXCEPT ![a] = "pending"]
         /\ stopInfo' = [stopInfo EXCEPT ![a] =
                            [NoStopInfo EXCEPT !.launch = cfn, !.idle = NoSession]]
         /\ pc' = [pc EXCEPT ![a] = "stop_enter"]
         /\ UNCHANGED crashed

Stop(c) ==
    /\ crashed = "no"
    /\ pc[c] = "idle"
    /\ StopBegin(c)
    /\ op' = [op EXCEPT ![c] = "Stop"]
    /\ UNCHANGED <<logVars, spFields, proc, killed, nLaunch, nStart, relayAddressing, ev, ad, running, loopEvent,
                   loopErr, waiting, lastStart, tdSince, lastExit, lastTeardown,
                   signals, atRestart>>

\* Restart, line 136: running := sp.IsRunning().
Restart(c) ==
    /\ crashed = "no"
    /\ pc[c] = "idle"
    /\ nStart' = nStart + 1
    /\ running' = [running EXCEPT ![c] = IsRunning]
    /\ pc' = [pc EXCEPT ![c] = "restart_capture"]
    /\ op' = [op EXCEPT ![c] = "Restart"]
    /\ atRestart' = [atRestart EXCEPT ![c] =
                        [running |-> IsRunning, event |-> raceEvent,
                         addressing |-> relayAddressing, stop |-> "none"]]
    /\ UNCHANGED <<logVars, spFields, proc, cancelled, killed, nLaunch, relayAddressing,
                   ev, ad, loopEvent, loopErr, timeout, waiting, crashed, lastStart,
                   tdSince, stopInfo, lastExit, lastTeardown, signals>>

\* Restart, lines 138-146: the event and the addressing are captured under the
\* lock.
RestartCapture(c) ==
    /\ crashed = "no"
    /\ pc[c] = "restart_capture"
    /\ ev' = [ev EXCEPT ![c] = raceEvent]
    /\ ad' = [ad EXCEPT ![c] = addressing]
    /\ pc' = [pc EXCEPT ![c] = IF running[c] THEN "restart_stop" ELSE "start_lock"]
    /\ running' = [running EXCEPT ![c] = FALSE]
    /\ UNCHANGED <<logVars, spFields, osVars, op, loopEvent, loopErr, timeout, waiting,
                   crashed, obsVars>>

\* Restart, line 147: sp.Stop() is entered.
RestartStop(c) ==
    /\ crashed = "no"
    /\ pc[c] = "restart_stop"
    /\ StopBegin(c)
    /\ UNCHANGED <<logVars, spFields, proc, killed, nLaunch, nStart, relayAddressing, op, ev, ad, running,
                   loopEvent, loopErr, waiting, lastStart, tdSince, lastExit,
                   lastTeardown,
                   signals, atRestart>>

\* Restart, line 152: sp.Start with the captured values (lines 89-94 of Start).
RestartStart(c) ==
    /\ crashed = "no"
    /\ pc[c] = "start_lock"
    /\ StoreAddressing(ad[c])
    /\ pc' = [pc EXCEPT ![c] = "start_send"]
    /\ ad' = [ad EXCEPT ![c] = ZeroAddressing]
    /\ UNCHANGED <<logVars, raceEvent, cmd, cfn, udpServerConn, extraProcesses, notifyDoneChs,
                   osVars, op, ev, running, loopEvent, loopErr, timeout,
                   waiting, crashed, obsVars>>

\* Stop, line 115: the goroutine reaches the select and parks on it.
StopPark(a) ==
    /\ crashed = "no"
    /\ pc[a] = "stop_enter"
    /\ pc' = [pc EXCEPT ![a] = "stop_select"]
    /\ UNCHANGED <<logVars, spFields, osVars, op, ev, ad, running, loopEvent, loopErr, timeout,
                   waiting, crashed, obsVars>>

\* Stop, line 119: the 10s timer fires and wakes the parked select.
StopTimeout(a) ==
    /\ crashed = "no"
    /\ pc[a] = "stop_select"
    /\ timeout[a] = "pending"
    /\ timeout' = [timeout EXCEPT ![a] = "fired"]
    /\ pc' = [pc EXCEPT ![a] = "stop_kill"]
    /\ stopInfo' = [stopInfo EXCEPT ![a].lateTimeout = stopInfo[a].missed]
    /\ UNCHANGED <<logVars, spFields, osVars, op, ev, ad, running, loopEvent, loopErr,
                   waiting, crashed, lastStart, tdSince, lastExit, lastTeardown,
                   signals, atRestart>>

\* Stop, lines 121-128: under the lock, kill(sp.cmd.Process); an error of the
\* kill is logged. The select is entered again.
StopKill(a) ==
    /\ crashed = "no"
    /\ pc[a] = "stop_kill"
    /\ killed' = killed \cup {i \in {cmd} : proc[i] = "running"}
    /\ stopInfo' = [stopInfo EXCEPT ![a].kills = @ + 1]
    /\ pc' = [pc EXCEPT ![a] = "stop_enter"]
    /\ UNCHANGED <<logVars, spFields, proc, cancelled, nLaunch, nStart, relayAddressing, op, ev, ad, running,
                   loopEvent, loopErr, timeout, waiting, crashed, lastStart, tdSince,
                   lastExit, lastTeardown,
                   signals, atRestart>>

\* Stop, lines 129-130: the 20s timer fires (after the 10s one) and wakes the
\* parked select: the result is ErrServerProcessTimeout.
StopFullTimeout(a) ==
    /\ crashed = "no"
    /\ pc[a] = "stop_select"
    /\ timeout[a] = "fired"
    /\ stopInfo' = [stopInfo EXCEPT ![a].result = ErrServerProcessTimeout]
    /\ pc' = [pc EXCEPT ![a] = "stop_return"]
    /\ UNCHANGED <<logVars, spFields, osVars, op, ev, ad, running, loopEvent, loopErr, timeout,
                   waiting, crashed, lastStart, tdSince, lastExit, lastTeardown,
                   signals, atRestart>>

\* Where a caller goes when its Stop call returns err: back to its own caller,
\* or, inside Restart after a nil result, on to Start (lines 147-152).
AfterStop(c, err) ==
    IF op[c] = "Restart" /\ err = Nil THEN "start_lock" ELSE "idle"

\* Stop returns (lines 118, 130) to an outside caller or to Restart.
StopReturn(c) ==
    /\ crashed = "no"
    /\ pc[c] = "stop_return"
    /\ pc' = [pc EXCEPT ![c] = AfterStop(c, stopInfo[c].result)]
    /\ op' = [op EXCEPT ![c] = IF pc'[c] = "idle" THEN "none" ELSE @]
    /\ ev' = [ev EXCEPT ![c] = IF pc'[c] = "idle" THEN Nil ELSE @]
    /\ ad' = [ad EXCEPT ![c] = IF pc'[c] = "idle" THEN ZeroAddressing ELSE @]
    /\ timeout' = [timeout EXCEPT ![c] = "off"]
    /\ stopInfo' = [stopInfo EXCEPT ![c] = NoStopInfo]
    /\ atRestart' = [atRestart EXCEPT ![c] =
                        IF pc'[c] = "idle" THEN NoRestart
                        ELSE [@ EXCEPT !.stop = stopInfo[c].result]]
    /\ UNCHANGED <<logVars, spFields, osVars, running, loopEvent, loopErr, waiting, crashed,
                   lastStart, tdSince, lastExit, lastTeardown, signals>>

\* ----------------------------------------------------------- the main process

\* The goroutine of lines 212-214: cmd.Run() returns (the process ended, by
\* itself, cancelled or killed, or never started) and the goroutine blocks on
\* sp.run <- err. err, nil or not, is only logged by the loop (lines 159-161).
ProcessExit(i) ==
    /\ crashed = "no"
    /\ proc[i] = "running"
    /\ proc' = [proc EXCEPT ![i] = "exited"]
    /\ cancelled' = cancelled \ {i}
    /\ killed' = killed \ {i}
    /\ lastExit' = [launch |-> i,
                    own |-> i \notin cancelled \cup killed,
                    registered |-> Range(notifyDoneChs)]
    /\ stopInfo' = [a \in Agents |->
                      IF InStop(a) /\ stopInfo[a].launch = i /\ i \notin killed
                      THEN [stopInfo[a] EXCEPT !.exited = TRUE]
                      ELSE stopInfo[a]]
    /\ UNCHANGED <<logVars, spFields, nLaunch, nStart, relayAddressing, goVars, lastStart, tdSince,
                   lastTeardown,
                   signals, atRestart>>

\* --------------------------------------------------------- the control loop

\* loop, line 158: err := <-sp.run, from the goroutine of launch i.
LoopRun(i) ==
    /\ crashed = "no"
    /\ pc[Loop] = "select"
    /\ proc[i] = "exited"
    /\ proc' = [proc EXCEPT ![i] = "reaped"]
    /\ pc' = [pc EXCEPT ![Loop] = "onStop"]
    /\ lastTeardown' = [NoTeardown EXCEPT !.launch = i]
    /\ UNCHANGED <<logVars, spFields, cancelled, killed, nLaunch, nStart, relayAddressing, op, ev, ad, running,
                   loopEvent, loopErr, timeout, waiting, crashed, lastStart, tdSince,
                   stopInfo, lastExit,
                   signals, atRestart>>

\* stopChildProcesses, lines 419-434: every tracked child is killed and the
\* collection is emptied.
stopChildProcesses ==
    extraProcesses' = << >>

\* onStop, lines 284-305, evaluated as the operand of the send at line 164.
\* closeOK: whether udpServerConn.Close() succeeds.
onStop(closeOK) ==
    IF udpServerConn = "nil"
    THEN /\ crashed' = "nil udpServerConn"
         /\ UNCHANGED <<raceEvent, udpServerConn, extraProcesses, waiting,
                        loopErr, pc, tdSince, stopInfo, lastTeardown, signals>>
    ELSE /\ raceEvent' = Nil
         /\ IF closeOK
            THEN /\ udpServerConn' = "closed"
                 /\ stopChildProcesses
                 /\ waiting' = waiting \ Range(notifyDoneChs)
                 /\ signals' = [ch \in DoneChans |->
                                  IF ch \in waiting \cap Range(notifyDoneChs)
                                  THEN signals[ch] + 1 ELSE signals[ch]]
                 /\ lastTeardown' = [lastTeardown EXCEPT
                                       !.done = TRUE,
                                       !.ready = waiting \cap Range(notifyDoneChs),
                                       !.signaled = waiting \cap Range(notifyDoneChs)]
                 /\ loopErr' = Nil
            ELSE /\ lastTeardown' = [lastTeardown EXCEPT
                                       !.done = TRUE,
                                       !.ready = waiting \cap Range(notifyDoneChs)]
                 /\ loopErr' = "ErrClose"
                 /\ UNCHANGED <<udpServerConn, extraProcesses, waiting, signals>>
         /\ pc' = [pc EXCEPT ![Loop] = "send_stopped"]
         /\ tdSince' = TRUE
         /\ stopInfo' = [a \in Agents |->
                           IF InStop(a) /\ stopInfo[a].launch = lastTeardown.launch
                           THEN [stopInfo[a] EXCEPT !.teardown = TRUE]
                           ELSE stopInfo[a]]
         /\ UNCHANGED crashed

LoopOnStop ==
    /\ crashed = "no"
    /\ pc[Loop] = "onStop"
    /\ \E closeOK \in BOOLEAN : onStop(closeOK)
    /\ UNCHANGED <<logVars, udpPluginAddress, udpPluginLocalPort, forwardingAddress,
                   forwardListenPort, cmd, cfn, notifyDoneChs, osVars, op, ev, ad,
                   running, loopEvent, timeout, lastStart, lastExit,
                   atRestart>>

\* What the end of a teardown leaves of the record of the exit it handled.
ExitHandled ==
    IF lastExit.launch = lastTeardown.launch THEN NoExit ELSE lastExit

\* loop, line 164 and Stop, lines 117-118: a Stop caller parked on its select
\* takes the result of onStop.
LoopSendStopped(c) ==
    /\ crashed = "no"
    /\ pc[Loop] = "send_stopped"
    /\ pc[c] = "stop_select"
    /\ pc' = [pc EXCEPT ![Loop] = "select", ![c] = "stop_return"]
    /\ stopInfo' = [stopInfo EXCEPT ![c].result = loopErr]
    /\ loopErr' = Nil
    /\ lastTeardown' = NoTeardown
    /\ lastExit' = ExitHandled
    /\ UNCHANGED <<logVars, spFields, osVars, op, ev, ad, running, loopEvent, timeout, waiting,
                   crashed, lastStart, tdSince,
                   signals, atRestart>>

\* The send of line 164 without the default case of line 165: the loop waits
\* for a receiver.
LoopWaitsForReceiver ==
    /\ pc[Loop] = "send_stopped"
    /\ FALSE
    /\ UNCHANGED vars

\* loop, line 165: no receiver is parked on sp.stopped, the result is dropped.
LoopDropStopped ==
    /\ crashed = "no"
    /\ pc[Loop] = "send_stopped"
    /\ \A c \in Callers : pc[c] # "stop_select"
    /\ pc' = [pc EXCEPT ![Loop] = "select"]
    /\ loopErr' = Nil
    /\ lastTeardown' = NoTeardown
    /\ lastExit' = ExitHandled
    /\ stopInfo' = [a \in Agents |->
                      IF InStop(a) /\ stopInfo[a].launch = lastTeardown.launch
                      THEN [stopInfo[a] EXCEPT !.missed = TRUE]
                      ELSE stopInfo[a]]
    /\ UNCHANGED <<logVars, spFields, osVars, op, ev, ad, running, loopEvent, timeout, waiting,
                   crashed, lastStart, tdSince,
                   signals, atRestart>>

\* loop, line 167 and Start, line 96: raceEvent := <-sp.start.
LoopStart(c) ==
    /\ crashed = "no"
    /\ pc[Loop] = "select"
    /\ pc[c] = "start_send"
    /\ loopEvent' = ev[c]
    /\ pc' = [pc EXCEPT ![Loop] = "is_running", ![c] = "start_recv"]
    /\ ev' = [ev EXCEPT ![c] = Nil]
    /\ UNCHANGED <<logVars, spFields, osVars, op, ad, running, loopErr, timeout, waiting,
                   crashed, obsVars>>

\* loop, lines 168-169: with a session running, the loop itself calls Stop.
LoopIsRunning ==
    /\ crashed = "no"
    /\ pc[Loop] = "is_running"
    /\ IF IsRunning
       THEN StopBegin(Loop)
       ELSE /\ pc' = [pc EXCEPT ![Loop] = "launch"]
            /\ UNCHANGED <<cancelled, timeout, stopInfo, crashed>>
    /\ UNCHANGED <<logVars, spFields, proc, killed, nLaunch, nStart, relayAddressing, op, ev, ad, running,
                   loopEvent, loopErr, waiting, lastStart, tdSince, lastExit,
                   lastTeardown,
                   signals, atRestart>>

\* loop, lines 169-173: the loop's own Stop returned; an error goes to
\* sp.started and the select is entered again, nil goes on to line 175.
LoopStopReturn ==
    /\ crashed = "no"
    /\ pc[Loop] = "stop_return"
    /\ pc' = [pc EXCEPT ![Loop] = IF stopInfo[Loop].result = Nil THEN "launch"
                                                                 ELSE "send_started"]
    /\ loopErr' = stopInfo[Loop].result
    /\ loopEvent' = IF stopInfo[Loop].result = Nil THEN loopEvent ELSE Nil
    /\ timeout' = [timeout EXCEPT ![Loop] = "off"]
    /\ UNCHANGED <<logVars, spFields, osVars, op, ev, ad, running, waiting, crashed, obsVars>>

\* startRaceEvent, lines 180-282, under the mutex. bindOK, getwdOK and aux are
\* what the network, os.Getwd and the store, plugins and commands answer.
startRaceEvent(e, bindOK, getwdOK, aux) ==
    LET id == nLaunch + 1
        udp == startUDPListener(bindOK)
    IN  /\ nLaunch' = id
        /\ cfn' = id
        /\ cmd' = id
        /\ udpServerConn' = udp.conn
        /\ relayAddressing' = IF udp.err = Nil THEN addressing ELSE relayAddressing
        /\ IF udp.err # Nil \/ ~getwdOK
           THEN /\ loopErr' = IF udp.err # Nil THEN udp.err ELSE "ErrGetwd"
                /\ UNCHANGED <<raceEvent, proc, extraProcesses, crashed>>
           ELSE /\ raceEvent' = e
                /\ proc' = [proc EXCEPT ![id] = "running"]
                /\ crashed' = IF aux.panic THEN "index out of range" ELSE crashed
                /\ extraProcesses' = extraProcesses \o aux.children
                /\ loopErr' = aux.err

LoopLaunch ==
    /\ crashed = "no"
    /\ pc[Loop] = "launch"
    /\ \E bindOK \in BOOLEAN, getwdOK \in BOOLEAN, aux \in AuxOutcomes :
           startRaceEvent(loopEvent, bindOK, getwdOK, aux)
    /\ pc' = [pc EXCEPT ![Loop] = "send_started"]
    /\ loopEvent' = Nil
    /\ UNCHANGED <<logVars, udpPluginAddress, udpPluginLocalPort, forwardingAddress,
                   forwardListenPort, notifyDoneChs, cancelled, killed, nStart, op, ev,
                   ad, running, timeout, waiting, obsVars>>

\* loop, lines 170/175 and Start, line 98: the caller takes the result from
\* sp.started and returns it.
LoopStarted(c) ==
    /\ crashed = "no"
    /\ pc[Loop] = "send_started"
    /\ pc[c] = "start_recv"
    /\ pc' = [pc EXCEPT ![Loop] = "select", ![c] = "idle"]
    /\ op' = [op EXCEPT ![c] = "none"]
    /\ lastStart' = IF loopErr = Nil THEN Nil ELSE "error"
    /\ tdSince' = FALSE
    /\ loopErr' = Nil
    /\ stopInfo' = [stopInfo EXCEPT ![Loop] = NoStopInfo]
    /\ atRestart' = [atRestart EXCEPT ![c] = NoRestart]
    /\ UNCHANGED <<logVars, spFields, osVars, ev, ad, running, loopEvent, timeout, waiting,
                   crashed, lastExit, lastTeardown, signals>>

\* ------------------------------------------------- the other public methods

\* NotifyDone, lines 331-336.
NotifyDone(ch) ==
    /\ crashed = "no"
    /\ ch \notin Range(notifyDoneChs)
    /\ notifyDoneChs' = Append(notifyDoneChs, ch)
    /\ UNCHANGED <<logVars, raceEvent, udpPluginAddress, udpPluginLocalPort, forwardingAddress,
                   forwardListenPort, cmd, cfn, udpServerConn, extraProcesses,
                   osVars, goVars, obsVars>>

\* The owner of a registered done channel starts to receive from it.
WaiterReceive(ch) ==
    /\ crashed = "no"
    /\ ch \in Range(notifyDoneChs)
    /\ ch \notin waiting
    /\ waiting' = waiting \cup {ch}
    /\ UNCHANGED <<logVars, spFields, osVars, pc, op, ev, ad, running, loopEvent, loopErr,
                   timeout, crashed, obsVars>>

\* ---------------------------------------------------------- the log buffer

\* b[len(b)-n:], the last n bytes of b.
LastBytes(b, n) == SubSeq(b, Len(b) - n + 1, Len(b))

\* Write without the eviction of lines 485-487.
WriteNoEvict(p) ==
    /\ Len(written) + Len(p) <= MaxWritten
    /\ buf' = buf \o p
    /\ written' = written \o p
    /\ lastWrite' = p
    /\ UNCHANGED <<spFields, osVars, goVars, obsVars>>

\* Write with the eviction made after the append instead of before it.
WriteEvictAfter(p) ==
    /\ Len(written) + Len(p) <= MaxWritten
    /\ buf' = IF Len(buf \o p) > LogSize THEN LastBytes(buf \o p, LogSize)
                                          ELSE buf \o p
    /\ written' = written \o p
    /\ lastWrite' = p
    /\ UNCHANGED <<spFields, osVars, goVars, obsVars>>

\* logBuffer.Write, lines 479-490, under lb.mutex: the content is cut to its
\* last lb.size bytes when it is longer than that, then p is appended.
Write(p) ==
    /\ Len(written) + Len(p) <= MaxWritten
    /\ buf' = (IF Len(buf) > LogSize THEN LastBytes(buf, LogSize) ELSE buf) \o p
    /\ written' = written \o p
    /\ lastWrite' = p
    /\ UNCHANGED <<spFields, osVars, goVars, obsVars>>

\* logBuffer.String, lines 492-497.
String == buf

\* ------------------------------------------------------- the specification

\* The steps of the Stop calls in progress of the agents of A: parking on the
\* select, and the two timers.
StopSteps(A) ==
    \/ \E a \in A : StopPark(a)
    \/ \E a \in A : StopTimeout(a)
    \/ \E a \in A : StopKill(a)
    \/ \E a \in A : StopFullTimeout(a)

\* The steps of the Restart and Stop calls in progress of the goroutines of C.
CallSteps(C) ==
    \/ \E c \in C : RestartCapture(c)
    \/ \E c \in C : RestartStop(c)
    \/ \E c \in C : RestartStart(c)
    \/ \E c \in C : StopReturn(c)
    \/ \E c \in C : LoopSendStopped(c)

\* The steps of the control loop and of the main processes, with the
\* goroutines of C inside Start.
LoopSteps(C) ==
    \/ \E i \in Sessions : ProcessExit(i)
    \/ \E i \in Sessions : LoopRun(i)
    \/ LoopOnStop
    \/ LoopDropStopped
    \/ \E c \in C : LoopStart(c)
    \/ LoopIsRunning
    \/ LoopStopReturn
    \/ LoopLaunch
    \/ \E c \in C : LoopStarted(c)

\* Everything the program does between the calls of the goroutines of C.
Program(C) ==
    \/ StopSteps(C \cup {Loop})
    \/ CallSteps(C)
    \/ LoopSteps(C)

\* A goroutine calls Start or Restart, as one of n such calls at most.
StartCall(c, e, a, n) ==
    nStart < n /\ Start(c, e, a)

RestartCall(c, n) ==
    nStart < n /\ Restart(c)

\* The steps of the program with the goroutines of C calling the public
\* methods.
Step(C) ==
    \/ \E c \in C, e \in Events, a \in Addressings : StartCall(c, e, a, MaxStart)
    \/ \E c \in C : RestartCall(c, MaxStart)
    \/ \E c \in C : Stop(c)
    \/ \E ch \in DoneChans : NotifyDone(ch)
    \/ \E ch \in DoneChans : WaiterReceive(ch)
    \/ Program(C)

\* One goroutine calls Start, Stop and Restart, one call after the other.
Next == Step({"c1"})

Spec == Init /\ [][Next]_vars

\* The scheduling of the program: a goroutine that can take a step takes one
\* (the loop, every call in progress), and a timer that is due fires. Nothing
\* makes a caller call, and nothing makes a main process exit.
LoopMoves(C) ==
    \/ \E i \in Sessions : LoopRun(i)
    \/ LoopOnStop
    \/ \E c \in C : LoopSendStopped(c)
    \/ LoopDropStopped
    \/ \E c \in C : LoopStart(c)
    \/ LoopIsRunning
    \/ LoopStopReturn
    \/ LoopLaunch
    \/ \E c \in C : LoopStarted(c)

Fairness ==
    /\ WF_vars(LoopMoves(Callers))
    /\ \A a \in Agents : WF_vars(StopSteps({a}))
    /\ \A c \in Callers : WF_vars(CallSteps({c}))

\* One goroutine calls Start and Stop, under that scheduling.
FairNext ==
    \/ \E e \in Events, a \in Addressings : StartCall("c1", e, a, MaxStart)
    \/ Stop("c1")
    \/ StopSteps({"c1", Loop})
    \/ StopReturn("c1")
    \/ \E i \in Sessions : ProcessExit(i)
    \/ LoopMoves({"c1"})

FairSpec == Init /\ [][FairNext]_vars /\ Fairness

\* One goroutine calls Start and Restart only.
RestartNext ==
    \/ \E e \in Events, a \in Addressings : StartCall("c1", e, a, MaxRestart)
    \/ RestartCall("c1", MaxRestart)
    \/ Program({"c1"})

RestartSpec == Init /\ [][RestartNext]_vars

\* What each caller passes to Start when several call it: its own descriptor
\* and its own addressing.
EventOf(c) == IF c = "c1" THEN "A" ELSE "B"
AddressingOf(c) == IF c = "c1" THEN Addressing1 ELSE Addressing2

\* Several goroutines call Start, MaxStart times in all.
ConcurrentNext ==
    \/ \E c \in Callers : StartCall(c, EventOf(c), AddressingOf(c), MaxStart)
    \/ StopSteps({Loop})
    \/ LoopSteps(Callers)

ConcurrentSpec == Init /\ [][ConcurrentNext]_vars

\* The writers of the log buffer (the output streams of the main process),
\* one Write at a time under the buffer's own lock.
LogNext == \E p \in Writes : Write(p)

LogSpec == Init /\ [][LogNext]_vars

\* ----------------------------------------------------------------- claims

\* The loop holds the result of a startRaceEvent call (not of its own Stop).
LaunchReturned ==
    pc[Loop] = "send_started" /\ loopErr # ErrServerProcessTimeout

\* C1: whenever no Start call is between its hand-off to the loop and its
\* return, IsRunning() is true if and only if the most recent Start returned
\* nil and no teardown (onStop) has completed since it returned.
C1_RunningIffLastStartOK ==
    (\A c \in Callers : pc[c] # "start_recv") =>
        (IsRunning <=> (lastStart = Nil /\ ~tdSince))

\* C2: when the launch sequence returns an error, the main process of that
\* attempt was not spawned, no descriptor is set and the relay is not open.
C2_FailedLaunchLeavesNothing ==
    (LaunchReturned /\ loopErr # Nil) =>
        /\ proc[cmd] = "none"
        /\ ~IsRunning
        /\ udpServerConn # "open"

\* C3: a Start received while a session is active stops it first; when the
\* main process exits after the cancellation and before the 20s timer, the
\* Stop made by the loop returns nil (and the launch follows).
C3_ImplicitStopSucceeds ==
    (pc[Loop] = "stop_return" /\ stopInfo[Loop].exited) =>
        stopInfo[Loop].result = Nil

\* C4: the stored addressing never changes while a session descriptor is
\* set; a Start that fails on a running session leaves it as it was.
C4_AddressingFixedWhileRunning ==
    [][(raceEvent # Nil /\ raceEvent' # Nil) => addressing' = addressing]_vars

\* C5: a Stop called with no session active (never started, or torn down
\* after its process exited) does not panic, never runs the forced kill and
\* never returns the hard-timeout error.
C5_IdleStopIsPrompt ==
    /\ crashed # "nil cfn"
    /\ \A c \in Callers :
           stopInfo[c].idle =>
               /\ stopInfo[c].kills = 0
               /\ stopInfo[c].result # ErrServerProcessTimeout

\* C6: a Stop during which the teardown of the session completed and its
\* result was offered on sp.stopped (so before the 20s timer fired) does not
\* return ErrServerProcessTimeout.
C6_NoTimeoutAfterTeardown ==
    \A a \in Agents :
        (pc[a] = "stop_return" /\ stopInfo[a].missed) =>
            stopInfo[a].result # ErrServerProcessTimeout

\* C7: a Stop call runs the forced kill at most once, and only when the
\* teardown of the session it stops had not already completed and offered
\* its result when the 10s timer fired.
C7_KillOnlyBeforeTeardown ==
    \A a \in Agents :
        /\ stopInfo[a].kills <= 1
        /\ stopInfo[a].kills > 0 => ~stopInfo[a].lateTimeout

\* C8: once the relay is open and the main process is handed to the waiting
\* goroutine, no failure of sTracker, a plugin or a legacy command makes
\* startRaceEvent return an error (an error of store.LoadServerOptions is no
\* auxiliary failure and is left aside).
C8_AuxFailuresDoNotFailStart ==
    (LaunchReturned /\ proc[cmd] # "none") =>
        loopErr \in {Nil, "ErrLoadServerOptions"}

\* C9: whenever the relay is not open (never opened, or closed by
\* teardown), SendUDPMessage returns ErrNoOpenUDPConnection and attempts no
\* send.
C9_NoSendOnClosedRelay ==
    udpServerConn # "open" => SendUDPMessage = ErrNoOpenUDPConnection

\* C10: after the teardown of a main process that exited on its own,
\* IsRunning() is false and every done-waiter registered before the exit
\* (and receiving on its channel when the teardown ran) was signaled by it.
C10_OwnExitSignalsWaiters ==
    (pc[Loop] = "send_stopped" /\ lastExit.launch = lastTeardown.launch /\ lastExit.own) =>
        /\ ~IsRunning
        /\ (lastExit.registered \cap lastTeardown.ready) \subseteq lastTeardown.signaled

\* C11: a channel registered with NotifyDone is signaled at most once over
\* the lifetime of the supervisor, whatever the number of teardowns.
C11_DoneWaiterOneShot ==
    \A ch \in DoneChans : signals[ch] <= 1

\* C12: Restart called on an active session reaches Start only after its Stop
\* returned nil, and the launch made for it gets the descriptor the session
\* had when Restart was called and the addressing that session was opened
\* with.
C12_RestartKeepsSession ==
    \A c \in Callers :
        (op[c] = "Restart" /\ atRestart[c].running) =>
            /\ pc[c] \in {"start_lock", "start_send", "start_recv"} =>
                   atRestart[c].stop = Nil
            /\ (pc[c] = "start_recv" /\ pc[Loop] = "launch") =>
                   /\ loopEvent = atRestart[c].event
                   /\ addressing = atRestart[c].addressing

\* s is the end of t.
IsSuffix(s, t) ==
    Len(s) <= Len(t) /\ LastBytes(t, Len(s)) = s

\* C13, as stated: the length of the log buffer never exceeds its cap.
C13_LogNeverExceedsCap ==
    Len(String) <= LogSize

\* C13, amended: the log buffer never holds more than its cap plus the bytes
\* of the most recent Write.
C13_LogCapPlusLastWrite ==
    Len(String) <= LogSize + Len(lastWrite)

\* Bytes were evicted and the buffer is longer than its cap.
C13_Witness ==
    Len(String) > LogSize /\ Len(written) > Len(String)

\* C14: String() is the end of everything ever written, and the most recent
\* Write is whole at its end, also when it is longer than the cap.
C14_LogIsSuffixWithLastWrite ==
    IsSuffix(String, written) /\ IsSuffix(lastWrite, String)

\* Bytes were evicted and the most recent Write is longer than the cap.
C14_Witness ==
    /\ Len(lastWrite) > LogSize
    /\ Len(written) > Len(String)
    /\ Len(String) > Len(lastWrite)

\* The launches whose main process is alive or has exited without its exit
\* having been taken by the loop yet.
Alive == {i \in Sessions : proc[i] \in {"running", "exited"}}

\* C15: at most one session at a time; no launch spawns a main process while
\* the main process of an earlier launch is alive or waits for its teardown.
C15_OneSessionAtATime ==
    Cardinality(Alive) <= 1

\* C16: a teardown runs for the session whose main process produced the exit
\* event: when onStop has run for the exit of a launch, the descriptor, relay
\* and children it tore down are not those of another launch whose main
\* process is still running.
C16_TeardownOfOwnSession ==
    (pc[Loop] = "send_stopped" /\ lastTeardown.done) =>
        (cmd = lastTeardown.launch \/ proc[cmd] # "running")

\* C18: with several callers in Start, the launch made for a caller's
\* descriptor finds in the addressing fields what that caller passed.
C18_LaunchUsesOwnAddressing ==
    \A c \in Callers :
        (pc[Loop] = "launch" /\ loopEvent = EventOf(c)) =>
            addressing = AddressingOf(c)

\* The callers that handed a descriptor to the loop and wait on sp.started.
AwaitingResult == {c \in Callers : pc[c] = "start_recv"}

\* The loop is working on a request it took from sp.start and has not yet
\* answered on sp.started.
LoopServing ==
    pc[Loop] \in {"is_running", "stop_enter", "stop_select", "stop_kill",
                  "stop_return", "launch", "send_started"}

\* C19: with several callers in Start, at most one caller has handed over its
\* descriptor without having its result, and it is the caller whose request
\* the loop is working on: the result sent on sp.started is the result of its
\* own request.
C19_OneRequestOutstanding ==
    /\ Cardinality(AwaitingResult) <= 1
    /\ LoopServing <=> AwaitingResult # {}
    /\ \A c \in Callers :
           (pc[Loop] \in {"is_running", "launch"} /\ loopEvent = EventOf(c)) =>
               AwaitingResult = {c}

\* One caller waits for the result of its launch while the other is blocked
\* on sp.start with its own descriptor.
C19_Witness ==
    /\ pc[Loop] = "send_started"
    /\ \E c, d \in Callers : pc[c] = "start_recv" /\ pc[d] = "start_send"

\* The teardown for the exit of launch i has just run: no descriptor is set.
TornDown(i) ==
    /\ pc[Loop] = "send_stopped"
    /\ lastTeardown.launch = i
    /\ lastTeardown.done
    /\ ~IsRunning

\* C17: teardown completes in the background: once a main process has exited
\* (in particular after a Stop that returned ErrServerProcessTimeout), the
\* loop takes its exit event and runs teardown, after which IsRunning() is
\* false; and the loop, whose completion signal nobody takes, goes back to its
\* select.
C17_TeardownInBackground ==
    /\ \A i \in Sessions : (proc[i] = "exited") ~> TornDown(i)
    /\ (pc[Loop] = "send_stopped") ~> (pc[Loop] = "select")

\* A Stop call has given up with ErrServerProcessTimeout and the teardown of
\* the session it stopped has run since.
C17_Witness ==
    \E c \in Callers :
        /\ pc[c] = "stop_return"
        /\ stopInfo[c].result = ErrServerProcessTimeout
        /\ TornDown(stopInfo[c].launch)

\* C20: the loop never blocks forever: every Start call that waits for the
\* loop returns, and the loop always comes back to its select.
C20_LoopNeverBlocks ==
    /\ \A c \in Callers : (pc[c] \in {"start_send", "start_recv"}) ~> (pc[c] = "idle")
    /\ (pc[Loop] # "select") ~> (pc[Loop] = "select")

====
